---- MODULE Spec2Model ----
(***************************************************************************)
(* A model of the keycap parameter model (keycaps/scripts/keycap.py) and   *)
(* of the Riskeyboard 70 family classes (keycaps/scripts/riskeyboard_70.py)*)
(*                                                                         *)
(* Python values are tagged records:                                       *)
(*   None            [t |-> "none"]                                        *)
(*   bool            [t |-> "bool", b |-> TRUE]                            *)
(*   int / float     [t |-> "num", m |-> value * SCALE, f |-> is a float]  *)
(*   str             [t |-> "str", s |-> text]                             *)
(*   list            [t |-> "list", e |-> <<value, ...>>]                  *)
(* A text is a sequence of atoms.  The characters the code treats          *)
(* specially (double quote, backslash, single quote, comma) always stand   *)
(* as atoms of their own; any other atom is a run of ordinary characters.  *)
(***************************************************************************)
EXTENDS Integers, Sequences, FiniteSets, TLC

VARIABLES
    phase,      \* "idle" | "built" | "raised" | "printed" | "reprinted" | "quoted"
    cls,        \* the class being constructed
    kw0,        \* the keyword arguments as the caller passed them
    self,       \* the instance's __dict__: attribute -> [ref, val]
    arg,        \* the caller's keyword objects, as they are now
    dflt,       \* Keycap.__init__'s default objects (shared by all calls)
    err,        \* the exception the constructor raised, "" for none
    cmd,        \* the result of the last __str__
    qin,        \* the legends handed to the last quote() call
    qout,       \* the text quote() returned
    made,       \* the instances built earlier that the caller still holds
    args,       \* the driver's parsed command line
    KEYCAPS,    \* the catalog: the attributes of each entry, in order
    pc,         \* where the driver is; "off" while no driver runs
    ni,         \* the index of the name the named loop is at
    ki,         \* the index of the catalog entry the loop is at
    matched,    \* the named loop's matched flag
    fs,         \* the paths that exist
    events      \* what the driver did: skips, renderer calls and their returns

\* The variables of the batch driver
dvars == <<args, KEYCAPS, pc, ni, ki, matched, fs, events>>

vars == <<phase, cls, kw0, self, arg, dflt, err, cmd, qin, qout, made,
          args, KEYCAPS, pc, ni, ki, matched, fs, events>>

---------------------------------------------------------------------------
(* Values *)

\* Numbers are held in units of 1/SCALE (0.45*2.25 = 1.0125 needs four places).
SCALE == 100 * 100

None == [t |-> "none"]
Bool(b) == [t |-> "bool", b |-> b]
\* A literal of the source: integer-valued literals are Python ints there.
Num(m) == [t |-> "num", m |-> m, f |-> (m % SCALE # 0)]
Float(m) == [t |-> "num", m |-> m, f |-> TRUE]
Str(s) == [t |-> "str", s |-> s]
List(e) == [t |-> "list", e |-> e]
\* [a, b, c] with a, b, c in units of 1/SCALE
V3(a, b, c) == List(<<Num(a), Num(b), Num(c)>>)

DQ == "\""
BS == "\\"
SQ == "'"
CM == ","

\* Python truthiness
Truthy(v) ==
    CASE v.t = "none" -> FALSE
      [] v.t = "bool" -> v.b
      [] v.t = "num" -> v.m # 0
      [] v.t = "str" -> v.s # <<>>
      [] v.t = "list" -> v.e # <<>>

\* str.startswith(tag): a size tag is one atom of a name
StartsWith(s, tag) == Len(s) > 0 /\ s[1] = tag

---------------------------------------------------------------------------
(* Number formatting and rounding *)

Abs(i) == IF i < 0 THEN -i ELSE i

\* The fraction digits of repr(float): trailing zeros dropped, one digit kept.
FracDigits(fp) ==
    LET d1 == ToString(fp \div 1000)
        d2 == ToString((fp \div 100) % 10)
        d3 == ToString((fp \div 10) % 10)
        d4 == ToString(fp % 10)
    IN  IF fp % 1000 = 0 THEN d1
        ELSE IF fp % 100 = 0 THEN d1 \o d2
        ELSE IF fp % 10 = 0 THEN d1 \o d2 \o d3
        ELSE d1 \o d2 \o d3 \o d4

\* str(number): "9" for an int, "13.7" for a float
NumText(n) ==
    LET a == Abs(n.m)
        sign == IF n.m < 0 THEN "-" ELSE ""
    IN  IF n.f THEN <<sign \o ToString(a \div SCALE) \o "." \o FracDigits(a % SCALE)>>
        ELSE <<sign \o ToString(a \div SCALE)>>

\* Decimal ties x.xx5 that no double holds exactly: round() follows the double.
\* The doubles of 39.075 and 89.825 lie above the tie; those of 17.325, 24.575
\* and 31.825 below it.
TieRoundsUp == {390750, 898250}

\* round(x, 2) on the magnitude a (in units of 1/SCALE)
RoundMag(a) ==
    LET r == a % 100
        lo == a - r
        exact == a % 625 = 0     \* a multiple of 1/16: the tie is real, half-even
        up == IF r # 50 THEN r > 50
              ELSE IF exact THEN (lo \div 100) % 2 = 1
              ELSE a \in TieRoundsUp
    IN  IF up THEN lo + 100 ELSE lo

\* round(v, 2): an int stays that int, a float goes to the nearest hundredth
Round2(v) ==
    IF v.t # "num" \/ ~v.f THEN v
    ELSE Float(IF v.m < 0 THEN -RoundMag(-v.m) ELSE RoundMag(v.m))

---------------------------------------------------------------------------
(* Encoders *)

RECURSIVE Concat(_)
\* The texts of a sequence, one after the other
Concat(ts) == IF ts = <<>> THEN <<>> ELSE Head(ts) \o Concat(Tail(ts))

RECURSIVE JoinCS(_)
\* ", ".join(texts)
JoinCS(ts) ==
    IF ts = <<>> THEN <<>>
    ELSE IF Len(ts) = 1 THEN ts[1]
    ELSE ts[1] \o <<CM, " ">> \o JoinCS(Tail(ts))

\* json.dumps of a str's body: quote and backslash get a backslash
JsonEscape(s) ==
    Concat([i \in 1..Len(s) |->
              IF s[i] = DQ THEN <<BS, DQ>>
              ELSE IF s[i] = BS THEN <<BS, BS>>
              ELSE <<s[i]>>])

RECURSIVE JsonDumps(_)
\* json.dumps(v) with the default separators
JsonDumps(v) ==
    CASE v.t = "none" -> <<"null">>
      [] v.t = "bool" -> IF v.b THEN <<"true">> ELSE <<"false">>
      [] v.t = "num" -> NumText(v)
      [] v.t = "str" -> <<DQ>> \o JsonEscape(v.s) \o <<DQ>>
      [] v.t = "list" ->
            <<"[">> \o JoinCS([i \in 1..Len(v.e) |-> JsonDumps(v.e[i])]) \o <<"]">>

\* text.replace('"', '\\"')
EscapeDQ(txt) ==
    Concat([i \in 1..Len(txt) |-> IF txt[i] = DQ THEN <<BS, DQ>> ELSE <<txt[i]>>])

\* Keycap.str_fmt
str_fmt(v) == EscapeDQ(JsonDumps(v))

RECURSIVE PyRepr(_)
\* repr(v), as str(list) applies it to the elements (a str without quotes in it)
PyRepr(v) ==
    CASE v.t = "none" -> <<"None">>
      [] v.t = "bool" -> IF v.b THEN <<"True">> ELSE <<"False">>
      [] v.t = "num" -> NumText(v)
      [] v.t = "str" -> <<SQ>> \o v.s \o <<SQ>>
      [] v.t = "list" ->
            <<"[">> \o JoinCS([i \in 1..Len(v.e) |-> PyRepr(v.e[i])]) \o <<"]">>

\* what an f-string puts for {v}: str(v)
PyStr(v) == IF v.t = "str" THEN v.s ELSE PyRepr(v)

RECURSIVE RStripComma(_)
\* out.rstrip(',')
RStripComma(txt) ==
    IF txt # <<>> /\ txt[Len(txt)] = CM
    THEN RStripComma(SubSeq(txt, 1, Len(txt) - 1))
    ELSE txt

\* quote with the single quote wrapped for the shell, as the docstring of
\* the method describes it, instead of like any other legend
QuoteElementShell(legend) ==
    IF legend = <<SQ>> THEN <<DQ, SQ, DQ, SQ, DQ, SQ, DQ, CM>>
    ELSE IF legend = <<DQ>> THEN <<DQ, BS, DQ, DQ>>
    ELSE <<BS, DQ>> \o legend \o <<BS, DQ, CM>>

\* What one pass of quote()'s loop appends for a legend
QuoteElement(legend) ==
    IF legend = <<SQ>> THEN <<BS, DQ>> \o <<SQ>> \o <<BS, DQ, CM>>
    ELSE IF legend = <<DQ>> THEN <<DQ, BS, DQ, DQ>>
    ELSE <<BS, DQ>> \o legend \o <<BS, DQ, CM>>

\* Keycap.quote(legends): legends is a sequence of texts
quote(legends) ==
    LET out == <<"[">> \o Concat([i \in 1..Len(legends) |-> QuoteElement(legends[i])])
    IN  RStripComma(out) \o <<"]">>

---------------------------------------------------------------------------
(* keycap.py: the constructor's options and their defaults *)

KEY_UNIT == 145000      \* 14.5
BETWEENSPACE == 8000    \* 0.8

\* Path('"C:\Program Files\OpenSCAD\openscad.exe"')
OPENSCAD_PATH ==
    <<DQ, "C:", BS, "Program Files", BS, "OpenSCAD", BS, "openscad.exe", DQ>>

\* The options of Keycap.__init__ with their defaults
KeycapDefaults ==
    [name |-> None,
     render |-> List(<<Str(<<"keycap">>), Str(<<"stem">>)>>),
     key_profile |-> Str(<<"riskeycap">>),
     key_length |-> Num(KEY_UNIT - BETWEENSPACE),
     key_width |-> Num(KEY_UNIT - BETWEENSPACE),
     key_rotation |-> V3(0, 0, 0),
     key_height |-> Num(90000),
     key_top_difference |-> Num(50000),
     wall_thickness |-> Num(10125),
     dish_thickness |-> Num(6000),
     dish_type |-> Str(<<"sphere">>),
     dish_depth |-> Num(10000),
     dish_invert |-> Bool(FALSE),
     dish_tilt |-> Num(0),
     dish_tilt_curve |-> Bool(TRUE),
     dish_fn |-> Num(2560000),
     dish_corner_fn |-> Num(640000),
     uniform_wall_thickness |-> Bool(TRUE),
     polygon_layers |-> Num(100000),
     polygon_layer_rotation |-> Num(0),
     polygon_edges |-> Num(40000),
     polygon_rotation |-> Bool(TRUE),
     corner_radius |-> Num(10000),
     corner_radius_curve |-> Num(30000),
     stem_type |-> Str(<<"box_cherry">>),
     stem_top_thickness |-> Num(5000),
     stem_inset |-> Num(10000),
     stem_inside_tolerance |-> Num(2000),
     stem_outside_tolerance_x |-> Num(500),
     stem_outside_tolerance_y |-> Num(500),
     stem_side_supports |-> List(<<Num(0), Num(0), Num(0), Num(0)>>),
     stem_locations |-> List(<<V3(0, 0, 0)>>),
     stem_sides_wall_thickness |-> Num(5000),
     stem_snap_fit |-> Bool(FALSE),
     stem_walls_inset |-> Num(0),
     stem_walls_tolerance |-> Num(0),
     homing_dot_length |-> Num(0),
     homing_dot_width |-> Num(10000),
     homing_dot_x |-> Num(0),
     \* -(KEY_UNIT-BETWEENSPACE) * 0.3, the double -4.109999999999999, to four places
     homing_dot_y |-> Num(-41100),
     homing_dot_z |-> Num(0),
     legends |-> List(<<Str(<<>>)>>),
     fonts |-> List(<<>>),
     font_sizes |-> List(<<>>),
     trans |-> List(<<V3(0, 0, 0)>>),
     trans2 |-> List(<<V3(0, 0, 0)>>),
     rotation |-> List(<<V3(0, 0, 0)>>),
     rotation2 |-> List(<<V3(0, 0, 0)>>),
     scale |-> List(<<V3(SCALE, SCALE, SCALE)>>),
     underset |-> List(<<V3(0, 0, 0)>>),
     legend_carved |-> Bool(FALSE),
     keycap_playground_path |-> Str(<<".">>),
     openscad_path |-> Str(OPENSCAD_PATH),
     output_path |-> Str(<<".">>)]

\* The names of the constructor's options
Fields == DOMAIN KeycapDefaults

\* An attribute bound to one of the caller's objects, to a default object of
\* Keycap.__init__, or to an object of the instance's own
ArgRef == [ref |-> "arg", val |-> None]
DfltRef == [ref |-> "dflt", val |-> None]
Own(v) == [ref |-> "own", val |-> v]

\* The object an attribute of the instance is bound to, as it is now
Deref(st, a) ==
    CASE st.self[a].ref = "own" -> st.self[a].val
      [] st.self[a].ref = "arg" -> st.arg[a]
      [] st.self[a].ref = "dflt" -> st.dflt[a]

\* The value a parameter of Keycap.__init__ is bound to in a call with keywords K
Param(st, K, f) == IF f \in K THEN st.arg[f] ELSE st.dflt[f]

\* Keycap.__init__ taking legends[0] as the name without testing it
KeycapInitFirstLegend(st, K) ==
    IF ~(K \subseteq Fields) THEN [st EXCEPT !.err = "TypeError"]
    ELSE
      LET bound == [f \in Fields |-> IF f \in K THEN ArgRef ELSE DfltRef]
          name == Param(st, K, "name")
          legends == Param(st, K, "legends")
          defaulted ==
              IF Truthy(legends) THEN legends.e[1] ELSE Str(<<"keycap">>)
      IN  [st EXCEPT !.self =
              IF ~Truthy(name) THEN [bound EXCEPT !["name"] = Own(defaulted)]
              ELSE bound]

\* Keycap.__init__(**K): every option is bound as passed; an unset name is
\* taken from the first legend, or is "keycap"
KeycapInit(st, K) ==
    IF ~(K \subseteq Fields) THEN [st EXCEPT !.err = "TypeError"]
    ELSE
      LET bound == [f \in Fields |-> IF f \in K THEN ArgRef ELSE DfltRef]
          name == Param(st, K, "name")
          legends == Param(st, K, "legends")
          defaulted ==
              IF Truthy(legends) /\ Truthy(legends.e[1])
              THEN legends.e[1]
              ELSE Str(<<"keycap">>)
      IN  [st EXCEPT !.self =
              IF ~Truthy(name) THEN [bound EXCEPT !["name"] = Own(defaulted)]
              ELSE bound]

\* Keycap.postinit(**kwargs) with the caller's own objects
PostInit(st, K) ==
    [st EXCEPT !.self = [a \in K |-> ArgRef] @@ st.self]

\* Keycap.postinit(**kwargs_copy) with the objects of a deepcopy
PostInitCopy(st, copy) ==
    [st EXCEPT !.self = [a \in DOMAIN copy |-> Own(copy[a])] @@ st.self]

---------------------------------------------------------------------------
(* keycap.py: __str__ *)

\* The -D flags of __str__ in order: the flag, the attribute it reads and how it
\* is encoded: "fmt" through str_fmt, "plain" interpolated as is, "round"
\* through round(.., 2), "quote" through quote
Flags ==
    <<[flag |-> "RENDER", field |-> "render", enc |-> "fmt"],
      [flag |-> "KEY_PROFILE", field |-> "key_profile", enc |-> "fmt"],
      [flag |-> "KEY_LENGTH", field |-> "key_length", enc |-> "round"],
      [flag |-> "KEY_WIDTH", field |-> "key_width", enc |-> "round"],
      [flag |-> "KEY_TOP_DIFFERENCE", field |-> "key_top_difference", enc |-> "plain"],
      [flag |-> "KEY_ROTATION", field |-> "key_rotation", enc |-> "plain"],
      [flag |-> "KEY_HEIGHT", field |-> "key_height", enc |-> "plain"],
      [flag |-> "WALL_THICKNESS", field |-> "wall_thickness", enc |-> "plain"],
      [flag |-> "UNIFORM_WALL_THICKNESS", field |-> "uniform_wall_thickness", enc |-> "fmt"],
      [flag |-> "DISH_THICKNESS", field |-> "dish_thickness", enc |-> "plain"],
      [flag |-> "DISH_INVERT", field |-> "dish_invert", enc |-> "fmt"],
      [flag |-> "DISH_TYPE", field |-> "dish_type", enc |-> "fmt"],
      [flag |-> "DISH_DEPTH", field |-> "dish_depth", enc |-> "plain"],
      [flag |-> "DISH_TILT", field |-> "dish_tilt", enc |-> "plain"],
      [flag |-> "DISH_TILT_CURVE", field |-> "dish_tilt_curve", enc |-> "fmt"],
      [flag |-> "DISH_FN", field |-> "dish_fn", enc |-> "plain"],
      [flag |-> "DISH_CORNER_FN", field |-> "dish_corner_fn", enc |-> "plain"],
      [flag |-> "POLYGON_LAYERS", field |-> "polygon_layers", enc |-> "plain"],
      [flag |-> "POLYGON_LAYER_ROTATION", field |-> "polygon_layer_rotation", enc |-> "fmt"],
      [flag |-> "POLYGON_EDGES", field |-> "polygon_edges", enc |-> "plain"],
      [flag |-> "POLYGON_ROTATION", field |-> "polygon_rotation", enc |-> "fmt"],
      [flag |-> "CORNER_RADIUS", field |-> "corner_radius", enc |-> "plain"],
      [flag |-> "CORNER_RADIUS_CURVE", field |-> "corner_radius_curve", enc |-> "fmt"],
      [flag |-> "STEM_TYPE", field |-> "stem_type", enc |-> "fmt"],
      [flag |-> "STEM_TOP_THICKNESS", field |-> "stem_top_thickness", enc |-> "plain"],
      [flag |-> "STEM_INSET", field |-> "stem_inset", enc |-> "plain"],
      [flag |-> "STEM_INSIDE_TOLERANCE", field |-> "stem_inside_tolerance", enc |-> "plain"],
      [flag |-> "STEM_OUTSIDE_TOLERANCE_X", field |-> "stem_outside_tolerance_x", enc |-> "plain"],
      [flag |-> "STEM_OUTSIDE_TOLERANCE_Y", field |-> "stem_outside_tolerance_y", enc |-> "plain"],
      [flag |-> "STEM_SIDE_SUPPORTS", field |-> "stem_side_supports", enc |-> "plain"],
      [flag |-> "STEM_SIDES_WALL_THICKNESS", field |-> "stem_sides_wall_thickness", enc |-> "plain"],
      [flag |-> "STEM_LOCATIONS", field |-> "stem_locations", enc |-> "plain"],
      [flag |-> "STEM_SNAP_FIT", field |-> "stem_snap_fit", enc |-> "fmt"],
      [flag |-> "STEM_WALLS_INSET", field |-> "stem_walls_inset", enc |-> "plain"],
      [flag |-> "STEM_WALLS_TOLERANCE", field |-> "stem_walls_tolerance", enc |-> "plain"],
      [flag |-> "HOMING_DOT_LENGTH", field |-> "homing_dot_length", enc |-> "plain"],
      [flag |-> "HOMING_DOT_WIDTH", field |-> "homing_dot_width", enc |-> "plain"],
      [flag |-> "HOMING_DOT_X", field |-> "homing_dot_x", enc |-> "plain"],
      [flag |-> "HOMING_DOT_Y", field |-> "homing_dot_y", enc |-> "plain"],
      [flag |-> "HOMING_DOT_Z", field |-> "homing_dot_z", enc |-> "plain"],
      [flag |-> "LEGENDS", field |-> "legends", enc |-> "quote"],
      [flag |-> "LEGEND_FONTS", field |-> "fonts", enc |-> "fmt"],
      [flag |-> "LEGEND_FONT_SIZES", field |-> "font_sizes", enc |-> "plain"],
      [flag |-> "LEGEND_TRANS", field |-> "trans", enc |-> "plain"],
      [flag |-> "LEGEND_TRANS2", field |-> "trans2", enc |-> "plain"],
      [flag |-> "LEGEND_ROTATION", field |-> "rotation", enc |-> "plain"],
      [flag |-> "LEGEND_ROTATION2", field |-> "rotation2", enc |-> "plain"],
      [flag |-> "LEGEND_SCALE", field |-> "scale", enc |-> "plain"],
      [flag |-> "LEGEND_UNDERSET", field |-> "underset", enc |-> "plain"],
      [flag |-> "RENDER", field |-> "render", enc |-> "fmt"]>>

\* __str__ interpolating key_length and key_width without round()
FlagArgUnrounded(enc, v) == v

\* The Python value one flag interpolates
FlagArg(enc, v) == IF enc = "round" THEN Round2(v) ELSE v

\* The text between the double quotes of one flag
FlagText(enc, v) ==
    CASE enc = "fmt" -> str_fmt(v)
      [] enc = "quote" -> quote([i \in 1..Len(v.e) |-> v.e[i].s])
      [] OTHER -> PyStr(FlagArg(enc, v))

\* __str__ writing of each legend attribute list only the entries that have
\* a legend
StrOfAligned(st) ==
    LET n == Len(Deref(st, "legends").e)
        cut(f) ==
            LET v == Deref(st, f)
            IN  IF f \in {"fonts", "font_sizes", "trans", "trans2", "rotation",
                          "rotation2", "scale", "underset"} /\ Len(v.e) > n
                THEN List(SubSeq(v.e, 1, n))
                ELSE v
    IN  [tool |-> PyStr(Deref(st, "openscad_path")),
         out |-> PyStr(Deref(st, "output_path")) \o <<BS>>
                   \o PyStr(Deref(st, "name")) \o <<".stl">>,
         flags |-> [i \in 1..Len(Flags) |->
                      [name |-> Flags[i].flag,
                       arg |-> FlagArg(Flags[i].enc, cut(Flags[i].field)),
                       text |-> FlagText(Flags[i].enc, cut(Flags[i].field))]],
         script |-> <<"scad", BS, "keycap_playground.scad">>]

\* __str__ without the second RENDER flag
StrOfOnce(st) ==
    [tool |-> PyStr(Deref(st, "openscad_path")),
     out |-> PyStr(Deref(st, "output_path")) \o <<BS>>
               \o PyStr(Deref(st, "name")) \o <<".stl">>,
     flags |-> [i \in 1..(Len(Flags) - 1) |->
                  [name |-> Flags[i].flag,
                   arg |-> FlagArg(Flags[i].enc, Deref(st, Flags[i].field)),
                   text |-> FlagText(Flags[i].enc, Deref(st, Flags[i].field))]],
     script |-> <<"scad", BS, "keycap_playground.scad">>]

\* __str__ with KEY_WIDTH written before KEY_LENGTH
StrOfSwapped(st) ==
    LET at(i) == IF i = 3 THEN 4 ELSE IF i = 4 THEN 3 ELSE i
    IN  [tool |-> PyStr(Deref(st, "openscad_path")),
         out |-> PyStr(Deref(st, "output_path")) \o <<BS>>
                   \o PyStr(Deref(st, "name")) \o <<".stl">>,
         flags |-> [i \in 1..Len(Flags) |->
                      [name |-> Flags[at(i)].flag,
                       arg |-> FlagArg(Flags[at(i)].enc, Deref(st, Flags[at(i)].field)),
                       text |-> FlagText(Flags[at(i)].enc, Deref(st, Flags[at(i)].field))]],
         script |-> <<"scad", BS, "keycap_playground.scad">>]

\* Keycap.__str__: the tool, the file after -o, the -D flags and the script
StrOf(st) ==
    [tool |-> PyStr(Deref(st, "openscad_path")),
     out |-> PyStr(Deref(st, "output_path")) \o <<BS>>
               \o PyStr(Deref(st, "name")) \o <<".stl">>,
     flags |-> [i \in 1..Len(Flags) |->
                  [name |-> Flags[i].flag,
                   arg |-> FlagArg(Flags[i].enc, Deref(st, Flags[i].field)),
                   text |-> FlagText(Flags[i].enc, Deref(st, Flags[i].field))]],
     script |-> <<"scad", BS, "keycap_playground.scad">>]

\* The command line as __str__ returns it
CmdText(c) ==
    c.tool \o <<" -o ">> \o c.out \o <<" ">>
      \o Concat([i \in 1..Len(c.flags) |->
                   <<"-D ", c.flags[i].name, "=", DQ>> \o c.flags[i].text \o <<DQ, " ">>])
      \o c.script

\* riskeyboard_70.py: the file the driver tests before it renders an entry
DriverFile(out, name) == out \o <<"/">> \o name \o <<".stl">>

---------------------------------------------------------------------------
(* riskeyboard_70.py: the family classes *)

\* The statements an __init__ runs after super().__init__(**kwargs)
Set(f, v) == [op |-> "set", f |-> f, v |-> v]                  \* self.f = v
SetAt(f, i, v) == [op |-> "setat", f |-> f, i |-> i, v |-> v]  \* self.f[i] = v
DeepCopy == [op |-> "deepcopy"]             \* kwargs_copy = deepcopy(kwargs)
ReApply == [op |-> "postinit"]              \* self.postinit(**kwargs)
ReApplyCopy == [op |-> "postinit_copy"]     \* self.postinit(**kwargs_copy)
Homing == [op |-> "homing"]     \* if homing_dot: self.homing_dot_length = 3
Spacebar == [op |-> "spacebar"] \* if kwargs.get("dish_invert"): key_rotation = ...
Prefix(tag) == [op |-> "prefix", tag |-> tag]   \* the size tag before the name

GOTHAM == Str(<<"Gotham Rounded:style=Bold">>)
ARIAL == Str(<<"Arial Black:style=Regular">>)
WIDE_ROTATION == V3(0, 1078500, 900000)         \* [0,107.85,90]
SPACEBAR_ROTATION == V3(0, 1118800, 900000)     \* [0,111.88,90]
\* [[0,0,0], [a,0,0], [b,0,0]]
Stems(a, b) == List(<<V3(0, 0, 0), V3(a, 0, 0), V3(b, 0, 0)>>)
\* KEY_UNIT*u-BETWEENSPACE, u in hundredths
Units(u) == Num((KEY_UNIT * u) \div 100 - BETWEENSPACE)
\* (KEY_UNIT-2)*u+2-BETWEENSPACE, u in tenths
Stretched(u) == Num(((KEY_UNIT - 2 * SCALE) * u) \div 10 + 2 * SCALE - BETWEENSPACE)

riskeyboard70_base ==
    [parent |-> "Keycap", homing |-> FALSE, ops |->
      <<Set("key_profile", Str(<<"riskeycap">>)),
        Set("key_rotation", V3(0, 1101000, 900000)),
        Set("key_length", Num(KEY_UNIT - BETWEENSPACE)),
        Set("key_width", Num(KEY_UNIT - BETWEENSPACE)),
        Set("wall_thickness", Num(10125)),
        Set("uniform_wall_thickness", Bool(TRUE)),
        Set("dish_thickness", Num(6000)),
        Set("stem_type", Str(<<"box_cherry">>)),
        Set("stem_top_thickness", Num(5000)),
        Set("stem_inside_tolerance", Num(2000)),
        Set("stem_side_supports", List(<<Num(0), Num(0), Num(0), Num(0)>>)),
        Set("stem_locations", List(<<V3(0, 0, 0)>>)),
        Set("stem_sides_wall_thickness", Num(5000)),
        Set("scale", List(<<V3(10000, 10000, 10000), V3(10000, 17500, 30000),
                            V3(10000, 10000, 30000)>>)),
        Set("fonts", List(<<ARIAL>>)),
        Set("font_sizes", List(<<Num(55000), Num(40000), Num(40000)>>)),
        Set("trans", List(<<V3(-30000, -26000, 20000), V3(35000, 30000, 10000),
                            V3(1500, -30000, 20000)>>)),
        Set("rotation", List(<<V3(0, 0, 0), V3(0, -200000, 0), V3(680000, 0, 0)>>)),
        ReApply>>]

riskeyboard70_alphas ==
    [parent |-> "riskeyboard70_base", homing |-> TRUE, ops |->
      <<Set("font_sizes", List(<<Num(55000), Num(40000), Num(40000)>>)),
        Set("trans", List(<<V3(-1000, 0, 0), V3(35000, 30000, 10000),
                            V3(1500, -30000, 20000)>>)),
        Homing,
        ReApply>>]

riskeyboard70_FKey ==
    [parent |-> "riskeyboard70_alphas", homing |-> TRUE, ops |->
      <<Set("font_sizes", List(<<Num(30000), Num(40000), Num(40000)>>)),
        ReApply>>]

riskeyboard70_home ==
    [parent |-> "riskeyboard70_alphas", homing |-> TRUE, ops |->
      <<Set("font_sizes", List(<<Num(90000), Num(40000), Num(40000)>>)),
        Set("fonts", List(<<ARIAL>>)),
        ReApply>>]

riskeyboard70_numrow ==
    [parent |-> "riskeyboard70_base", homing |-> FALSE, ops |->
      <<Set("fonts", List(<<GOTHAM, GOTHAM, GOTHAM, ARIAL>>)),
        Set("font_sizes", List(<<Num(45000), Num(45000), Num(45000), Num(35000)>>)),
        Set("trans", List(<<V3(-3000, 0, 0), V3(26000, 0, 0), V3(50000, 0, 10000),
                            V3(1500, -20000, 20000)>>)),
        Set("rotation", List(<<V3(0, -200000, 0), V3(0, -200000, 0),
                               V3(0, -200000, 0), V3(680000, 0, 0)>>)),
        Set("scale", List(<<V3(10000, 10000, 30000), V3(10000, 17500, 30000),
                            V3(10000, 10000, 30000), V3(10000, 10000, 30000)>>)),
        ReApply>>]

riskeyboard70_tilde ==
    [parent |-> "riskeyboard70_numrow", homing |-> FALSE, ops |->
      <<SetAt("font_sizes", 0, Num(65000)),
        SetAt("font_sizes", 2, Num(55000)),
        SetAt("trans", 0, V3(-3000, -27000, 0)),
        SetAt("trans", 2, V3(55000, -10000, 10000))>>]

riskeyboard70_2 ==
    [parent |-> "riskeyboard70_numrow", homing |-> FALSE, ops |->
      <<SetAt("fonts", 2, Str(<<"Aharoni">>)),
        SetAt("font_sizes", 2, Num(45000)),
        SetAt("trans", 2, V3(54000, 0, 10000))>>]

riskeyboard70_3 ==
    [parent |-> "riskeyboard70_numrow", homing |-> FALSE, ops |->
      <<SetAt("font_sizes", 2, Num(40000)),
        SetAt("trans", 2, V3(55000, 0, 10000))>>]

riskeyboard70_5 ==
    [parent |-> "riskeyboard70_numrow", homing |-> FALSE, ops |->
      <<SetAt("font_sizes", 2, Num(37500)),
        SetAt("trans", 2, V3(52000, 0, 10000))>>]

riskeyboard70_7 ==
    [parent |-> "riskeyboard70_numrow", homing |-> FALSE, ops |->
      <<SetAt("font_sizes", 2, Num(38500)),
        SetAt("trans", 2, V3(52000, 0, 10000))>>]

riskeyboard70_8 ==
    [parent |-> "riskeyboard70_numrow", homing |-> FALSE, ops |->
      <<SetAt("font_sizes", 2, Num(75000)),
        SetAt("trans", 2, V3(52000, -19000, 10000))>>]

riskeyboard70_equal ==
    [parent |-> "riskeyboard70_numrow", homing |-> FALSE, ops |->
      <<SetAt("trans", 0, V3(-3000, -5000, 0)),
        SetAt("trans", 2, V3(50000, -3000, 10000))>>]

riskeyboard70_dash ==
    [parent |-> "riskeyboard70_numrow", homing |-> FALSE, ops |->
      <<SetAt("trans", 2, V3(52000, -10000, 10000)),
        SetAt("scale", 2, V3(8000, 10000, 30000))>>]

riskeyboard70_double_legends ==
    [parent |-> "riskeyboard70_base", homing |-> FALSE, ops |->
      <<Set("fonts", List(<<GOTHAM, GOTHAM, GOTHAM>>)),
        Set("font_sizes", List(<<Num(45000), Num(45000), Num(30000)>>)),
        Set("trans", List(<<V3(-20000, 0, 0), V3(0, 0, 0), V3(20000, 0, 0)>>)),
        Set("rotation", List(<<V3(0, 0, 0), V3(0, 0, 0), V3(0, 0, 0)>>)),
        Set("scale", List(<<V3(10000, 10000, 10000), V3(10000, 17500, 30000),
                            V3(10000, 10000, 10000)>>)),
        ReApply>>]

riskeyboard70_prtsc ==
    [parent |-> "riskeyboard70_double_legends", homing |-> FALSE, ops |->
      <<Set("font_sizes", List(<<Num(25000), Num(30000), Num(25000)>>)),
        ReApply>>]

riskeyboard70_pg_ptr ==
    [parent |-> "riskeyboard70_double_legends", homing |-> FALSE, ops |->
      <<Set("font_sizes", List(<<Num(30000), Num(30000), Num(45000)>>)),
        SetAt("fonts", 2, Str(<<"Hack">>)),
        ReApply>>]

riskeyboard70_minus ==
    [parent |-> "riskeyboard70_double_legends", homing |-> FALSE, ops |->
      <<Set("scale", List(<<V3(20000, 20000, 10000), V3(10000, 17500, 30000),
                            V3(20000, 20000, 10000)>>)),
        ReApply>>]

riskeyboard70_tick ==
    [parent |-> "riskeyboard70_double_legends", homing |-> FALSE, ops |->
      <<Set("trans", List(<<V3(-25000, -10000, 0), V3(0, 0, 0), V3(20000, -5000, 0)>>)),
        Set("font_sizes", List(<<Num(55000), Num(45000), Num(45000)>>)),
        ReApply>>]

riskeyboard70_gt_lt ==
    [parent |-> "riskeyboard70_double_legends", homing |-> FALSE, ops |->
      <<SetAt("trans", 0, V3(-3000, -1000, 0)),
        SetAt("trans", 2, V3(52000, -3500, 10000))>>]

riskeyboard70_brackets ==
    [parent |-> "riskeyboard70_double_legends", homing |-> FALSE, ops |->
      <<SetAt("trans", 2, V3(52000, 0, 10000))>>]

riskeyboard70_semicolon ==
    [parent |-> "riskeyboard70_double_legends", homing |-> FALSE, ops |->
      <<SetAt("trans", 0, V3(2000, -4000, 0)),
        SetAt("trans", 2, V3(47000, 0, 10000))>>]

riskeyboard70_1_U_text ==
    [parent |-> "riskeyboard70_alphas", homing |-> FALSE, ops |->
      <<DeepCopy,
        SetAt("font_sizes", 0, Num(40000)),
        SetAt("trans", 0, V3(25000, 0, 0)),
        ReApplyCopy>>]

riskeyboard70_arrows ==
    [parent |-> "riskeyboard70_alphas", homing |-> FALSE, ops |->
      <<SetAt("fonts", 0, Str(<<"Hack">>))>>]

riskeyboard70_fontawesome ==
    [parent |-> "riskeyboard70_alphas", homing |-> FALSE, ops |->
      <<SetAt("fonts", 0, Str(<<"FontAwesome">>)),
        SetAt("font_sizes", 0, Num(50000)),
        SetAt("trans", 0, V3(26000, 3000, 0))>>]

riskeyboard70_1_25U ==
    [parent |-> "riskeyboard70_alphas", homing |-> FALSE, ops |->
      <<DeepCopy,
        Set("key_length", Units(125)),
        SetAt("trans", 0, V3(5000, 0, 0)),
        ReApplyCopy,
        Prefix("1.25U_")>>]

riskeyboard70_1_4U ==
    [parent |-> "riskeyboard70_alphas", homing |-> FALSE, ops |->
      <<DeepCopy,
        Set("key_length", Stretched(14)),
        SetAt("font_sizes", 0, Num(40000)),
        SetAt("trans", 0, V3(0, 0, 0)),
        ReApplyCopy,
        Prefix("1.4U_")>>]

riskeyboard70_1_6U ==
    [parent |-> "riskeyboard70_alphas", homing |-> FALSE, ops |->
      <<DeepCopy,
        Set("key_length", Stretched(16)),
        SetAt("font_sizes", 0, Num(40000)),
        SetAt("trans", 0, V3(0, 0, 0)),
        ReApplyCopy,
        Prefix("1.6U_")>>]

riskeyboard70_1_5U ==
    [parent |-> "riskeyboard70_double_legends", homing |-> FALSE, ops |->
      <<Set("key_length", Units(150)),
        SetAt("trans", 0, V3(15000, 0, 0)),
        ReApply,
        Prefix("1.5U_")>>]

riskeyboard70_bslash ==
    [parent |-> "riskeyboard70_double_legends", homing |-> FALSE, ops |->
      <<Set("key_length", Stretched(20)),
        SetAt("trans", 0, V3(-12000, 0, 3000))>>]

riskeyboard70_tab ==
    [parent |-> "riskeyboard70_1_5U", homing |-> FALSE, ops |->
      <<SetAt("font_sizes", 0, Num(45000)),
        SetAt("trans", 0, V3(26000, 0, 0))>>]

riskeyboard70_1_75U ==
    [parent |-> "riskeyboard70_alphas", homing |-> FALSE, ops |->
      <<Set("key_length", Units(175)),
        Set("key_rotation", WIDE_ROTATION),
        ReApply,
        Prefix("1.75U_")>>]

riskeyboard70_2U ==
    [parent |-> "riskeyboard70_alphas", homing |-> FALSE, ops |->
      <<Set("key_length", Stretched(20)),
        SetAt("font_sizes", 0, Num(40000)),
        Set("key_rotation", WIDE_ROTATION),
        Spacebar,
        ReApply,
        Prefix("2U_")>>]

\* The body shared by the 2.25U, 2.5U, 2.75U, 6.25U and 7U classes
WideOps(length, stems, tag) ==
    <<DeepCopy,
      Set("key_length", length),
      Set("key_rotation", WIDE_ROTATION),
      Spacebar,
      Set("stem_locations", stems),
      SetAt("trans", 0, V3(31000, 2000, 0)),
      SetAt("font_sizes", 0, Num(40000)),
      ReApplyCopy,
      Prefix(tag)>>

riskeyboard70_2_25U ==
    [parent |-> "riskeyboard70_alphas", homing |-> FALSE,
     ops |-> WideOps(Units(225), Stems(120000, -120000), "2.25U_")]

riskeyboard70_2_5U ==
    [parent |-> "riskeyboard70_alphas", homing |-> FALSE,
     ops |-> WideOps(Units(250), Stems(120000, -120000), "2.5U_")]

riskeyboard70_2_6U ==
    [parent |-> "riskeyboard70_alphas", homing |-> FALSE, ops |->
      <<DeepCopy,
        Set("key_length", Stretched(26)),
        Set("key_rotation", WIDE_ROTATION),
        Spacebar,
        Set("stem_locations", Stems(110000, -120000)),
        SetAt("font_sizes", 0, Num(40000)),
        ReApplyCopy,
        Prefix("2.6U_")>>]

riskeyboard70_enter ==
    [parent |-> "riskeyboard70_2_6U", homing |-> FALSE, ops |->
      <<DeepCopy,
        Set("stem_locations", Stems(115000, -120000)),
        ReApplyCopy,
        Prefix("2.6U_")>>]

riskeyboard70_backspace ==
    [parent |-> "riskeyboard70_2_6U", homing |-> FALSE, ops |->
      <<DeepCopy,
        SetAt("font_sizes", 0, Num(30000)),
        Set("stem_locations", Stems(115000, -120000)),
        ReApplyCopy,
        Prefix("2.6U_")>>]

\* The body shared by the two space bars
SpaceOps(length, stems) ==
    <<DeepCopy,
      Set("key_length", length),
      Set("key_rotation", WIDE_ROTATION),
      Spacebar,
      Set("stem_locations", stems),
      ReApplyCopy>>

riskeyboard70_leftSpace ==
    [parent |-> "riskeyboard70_alphas", homing |-> FALSE,
     ops |-> SpaceOps(Num((49 + 2) * SCALE - BETWEENSPACE), Stems(200000, -200000))]

riskeyboard70_rightSpace ==
    [parent |-> "riskeyboard70_alphas", homing |-> FALSE,
     ops |-> SpaceOps(Num((51 + 2) * SCALE - BETWEENSPACE), Stems(210000, -210000))]

riskeyboard70_2_75U ==
    [parent |-> "riskeyboard70_alphas", homing |-> FALSE,
     ops |-> WideOps(Units(275), Stems(120000, -120000), "2.75U_")]

riskeyboard70_6_25U ==
    [parent |-> "riskeyboard70_alphas", homing |-> FALSE,
     ops |-> WideOps(Units(625), Stems(500000, -500000), "6.25U_")]

riskeyboard70_7U ==
    [parent |-> "riskeyboard70_alphas", homing |-> FALSE,
     ops |-> WideOps(Units(700), Stems(570000, -570000), "7U_")]

\* Keycap itself: no parent, nothing after the constructor proper
KeycapClass == [parent |-> "", homing |-> FALSE, ops |-> <<>>]

Class ==
    [Keycap |-> KeycapClass,
     riskeyboard70_base |-> riskeyboard70_base,
     riskeyboard70_alphas |-> riskeyboard70_alphas,
     riskeyboard70_FKey |-> riskeyboard70_FKey,
     riskeyboard70_home |-> riskeyboard70_home,
     riskeyboard70_numrow |-> riskeyboard70_numrow,
     riskeyboard70_tilde |-> riskeyboard70_tilde,
     riskeyboard70_2 |-> riskeyboard70_2,
     riskeyboard70_3 |-> riskeyboard70_3,
     riskeyboard70_5 |-> riskeyboard70_5,
     riskeyboard70_7 |-> riskeyboard70_7,
     riskeyboard70_8 |-> riskeyboard70_8,
     riskeyboard70_equal |-> riskeyboard70_equal,
     riskeyboard70_dash |-> riskeyboard70_dash,
     riskeyboard70_double_legends |-> riskeyboard70_double_legends,
     riskeyboard70_prtsc |-> riskeyboard70_prtsc,
     riskeyboard70_pg_ptr |-> riskeyboard70_pg_ptr,
     riskeyboard70_minus |-> riskeyboard70_minus,
     riskeyboard70_tick |-> riskeyboard70_tick,
     riskeyboard70_gt_lt |-> riskeyboard70_gt_lt,
     riskeyboard70_brackets |-> riskeyboard70_brackets,
     riskeyboard70_semicolon |-> riskeyboard70_semicolon,
     riskeyboard70_1_U_text |-> riskeyboard70_1_U_text,
     riskeyboard70_arrows |-> riskeyboard70_arrows,
     riskeyboard70_fontawesome |-> riskeyboard70_fontawesome,
     riskeyboard70_1_25U |-> riskeyboard70_1_25U,
     riskeyboard70_1_4U |-> riskeyboard70_1_4U,
     riskeyboard70_1_6U |-> riskeyboard70_1_6U,
     riskeyboard70_1_5U |-> riskeyboard70_1_5U,
     riskeyboard70_bslash |-> riskeyboard70_bslash,
     riskeyboard70_tab |-> riskeyboard70_tab,
     riskeyboard70_1_75U |-> riskeyboard70_1_75U,
     riskeyboard70_2U |-> riskeyboard70_2U,
     riskeyboard70_2_25U |-> riskeyboard70_2_25U,
     riskeyboard70_2_5U |-> riskeyboard70_2_5U,
     riskeyboard70_2_6U |-> riskeyboard70_2_6U,
     riskeyboard70_enter |-> riskeyboard70_enter,
     riskeyboard70_backspace |-> riskeyboard70_backspace,
     riskeyboard70_leftSpace |-> riskeyboard70_leftSpace,
     riskeyboard70_rightSpace |-> riskeyboard70_rightSpace,
     riskeyboard70_2_75U |-> riskeyboard70_2_75U,
     riskeyboard70_6_25U |-> riskeyboard70_6_25U,
     riskeyboard70_7U |-> riskeyboard70_7U]

Classes == DOMAIN Class

---------------------------------------------------------------------------
(* Running a constructor *)

\* self.f = v that leaves a field alone
ApplySetLost(st, f, v) == st

\* self.f = v as an edit of the list the attribute is bound to (self.f[:] = v)
ApplySetInPlace(st, f, v) ==
    IF v.t # "list" \/ Deref(st, f).t # "list" THEN [st EXCEPT !.self[f] = Own(v)]
    ELSE CASE st.self[f].ref = "own" -> [st EXCEPT !.self[f] = Own(v)]
           [] st.self[f].ref = "arg" -> [st EXCEPT !.arg[f] = v]
           [] st.self[f].ref = "dflt" -> [st EXCEPT !.dflt[f] = v]

\* self.f = v: the attribute is bound to a fresh object
ApplySet(st, f, v) == [st EXCEPT !.self[f] = Own(v)]

\* self.f[i] = v: the list the attribute is bound to is changed in place,
\* whoever else holds it
ApplySetAt(st, f, i, v) ==
    LET cur == Deref(st, f)
    IN  IF cur.t # "list" THEN [st EXCEPT !.err = "TypeError"]
        ELSE IF i + 1 > Len(cur.e) THEN [st EXCEPT !.err = "IndexError"]
        ELSE LET new == List([cur.e EXCEPT ![i + 1] = v])
             IN  CASE st.self[f].ref = "own" -> [st EXCEPT !.self[f] = Own(new)]
                   [] st.self[f].ref = "arg" -> [st EXCEPT !.arg[f] = new]
                   [] st.self[f].ref = "dflt" -> [st EXCEPT !.dflt[f] = new]

\* The size-tag statement without its startswith test
ApplyPrefixAlways(st, tag) ==
    LET name == Deref(st, "name")
    IN  IF name.t # "str" THEN [st EXCEPT !.err = "AttributeError"]
        ELSE ApplySet(st, "name", Str(<<tag>> \o name.s))

\* if not self.name.startswith(tag): self.name = f"{tag}{self.name}"
ApplyPrefix(st, tag) ==
    LET name == Deref(st, "name")
    IN  IF name.t # "str" THEN [st EXCEPT !.err = "AttributeError"]
        ELSE IF StartsWith(name.s, tag) THEN st
        ELSE ApplySet(st, "name", Str(<<tag>> \o name.s))

\* One statement of an __init__ whose **kwargs has the keys K and whose
\* homing_dot parameter is hd
ApplyOp(st, o, K, hd) ==
    CASE o.op = "set" -> ApplySet(st, o.f, o.v)
      [] o.op = "setat" -> ApplySetAt(st, o.f, o.i, o.v)
      [] o.op = "deepcopy" -> [st EXCEPT !.copy = [a \in K |-> st.arg[a]]]
      [] o.op = "postinit" -> PostInit(st, K)
      [] o.op = "postinit_copy" -> PostInitCopy(st, st.copy)
      [] o.op = "homing" ->
            IF hd THEN ApplySet(st, "homing_dot_length", Num(3 * SCALE)) ELSE st
      [] o.op = "spacebar" ->
            IF "dish_invert" \in K /\ Truthy(st.arg["dish_invert"])
            THEN ApplySet(st, "key_rotation", SPACEBAR_ROTATION)
            ELSE st
      [] o.op = "prefix" -> ApplyPrefix(st, o.tag)

RECURSIVE RunOps(_, _, _, _)
\* The statements in order; an exception ends the constructor
RunOps(ops, st, K, hd) ==
    IF ops = <<>> \/ st.err # "" THEN st
    ELSE RunOps(Tail(ops), ApplyOp(st, Head(ops), K, hd), K, hd)

RECURSIVE ClassInit(_, _, _)
\* c.__init__ called with the keywords K: a class that declares homing_dot
\* takes it out of **kwargs, then super().__init__(**kwargs), then the body
ClassInit(c, st, K) ==
    IF c = "Keycap" THEN KeycapInit(st, K)
    ELSE
      LET C == Class[c]
          kwargs == IF C.homing THEN K \ {"homing_dot"} ELSE K
          hd == C.homing /\ "homing_dot" \in K /\ Truthy(st.arg["homing_dot"])
      IN  RunOps(C.ops, ClassInit(C.parent, st, kwargs), kwargs, hd)

\* The value of an attribute of the instance
Value(a) == Deref([self |-> self, arg |-> arg, dflt |-> dflt], a)

---------------------------------------------------------------------------
(* The calls the model makes *)

\* At most this many keywords in one constructor call
MaxKw == 2

\* At most this many legends in a list handed to quote()
MaxLegends == 3

\* The keywords the model passes to the family constructors
FamilyValues ==
    [name |-> {None, Str(<<>>), Str(<<"foo">>)},
     legends |-> {List(<<>>), List(<<Str(<<>>)>>), List(<<Str(<<"X">>)>>)},
     font_sizes |-> {List(<<Num(10000), Num(20000), Num(30000)>>), List(<<Num(70000)>>)},
     trans |-> {List(<<V3(90000, 90000, 90000), V3(80000, 80000, 80000),
                       V3(70000, 70000, 70000)>>)},
     key_length |-> {Num(50000)},
     dish_invert |-> {Bool(TRUE)},
     homing_dot |-> {Bool(TRUE), Bool(FALSE)},
     homing_dot_length |-> {Num(50000)}]

\* The classes and keywords the model serializes
PrintClasses ==
    {"Keycap", "riskeyboard70_numrow", "riskeyboard70_1_25U", "riskeyboard70_2_75U"}

PrintValues ==
    [name |-> {Str(<<"foo">>)},
     legends |-> {List(<<Str(<<"A">>)>>), List(<<Str(<<DQ>>), Str(<<"A">>)>>),
                  List(<<Str(<<"A">>), Str(<<>>), Str(<<SQ>>)>>)},
     render |-> {List(<<Str(<<"legends">>)>>)},
     output_path |-> {Str(<<"out">>)},
     key_profile |-> {Str(<<"a", DQ, "b", BS, "c">>)},
     key_length |-> {Num(137060), Num(173250), Num(1250)},
     key_width |-> {Num(137040), Num(200000)},
     key_height |-> {Num(75000)},
     polygon_layer_rotation |-> {Num(5000)},
     dish_invert |-> {Bool(TRUE)},
     legend_carved |-> {Bool(TRUE)},
     fonts |-> {List(<<Str(<<"F1">>), Str(<<"F2">>), Str(<<"F3">>), Str(<<"F4">>)>>)},
     font_sizes |-> {List(<<Num(10000), Num(25000), Num(30000), Num(40000)>>)}]

\* The size families and the classes derived from one
SizeClasses ==
    {"riskeyboard70_1_25U", "riskeyboard70_1_4U", "riskeyboard70_1_5U",
     "riskeyboard70_1_6U", "riskeyboard70_1_75U", "riskeyboard70_2U",
     "riskeyboard70_2_25U", "riskeyboard70_2_5U", "riskeyboard70_2_6U",
     "riskeyboard70_2_75U", "riskeyboard70_6_25U", "riskeyboard70_7U",
     "riskeyboard70_tab", "riskeyboard70_enter", "riskeyboard70_backspace"}

\* The size tags the classes test for and put in front of the name
SizeTags ==
    {"1.25U_", "1.4U_", "1.5U_", "1.6U_", "1.75U_", "2U_", "2.25U_", "2.5U_",
     "2.6U_", "2.75U_", "6.25U_", "7U_"}

\* The keywords the model passes to the size families: no name, a plain name,
\* a name that carries a size tag
NameValues ==
    [name |-> {None, Str(<<>>), Str(<<"foo">>)} \cup {Str(<<t, "foo">>) : t \in SizeTags},
     legends |-> {List(<<Str(<<>>)>>), List(<<Str(<<"X">>)>>)},
     font_sizes |-> {List(<<Num(10000), Num(20000), Num(30000)>>)}]

RECURSIVE KwSets(_, _)
\* The keyword dictionaries with at most n keys, their values from vals
KwSets(vals, n) ==
    IF n = 0 THEN {<<>>}
    ELSE LET less == KwSets(vals, n - 1)
         IN  less \cup
             UNION {{(pk[2] :> v) @@ pk[1] : v \in vals[pk[2]]} :
                       pk \in {x \in less \X DOMAIN vals : x[2] \notin DOMAIN x[1]}}

\* The legends the model hands to quote(): a letter, the empty string, the
\* double quote, the single quote, a comma, a backslash, a quoted letter
Legend == {<<"A">>, <<>>, <<DQ>>, <<SQ>>, <<CM>>, <<BS>>, <<DQ, "&", DQ>>}

RECURSIVE LegendLists(_)
LegendLists(n) ==
    IF n = 0 THEN {<<>>}
    ELSE LET less == LegendLists(n - 1)
         IN  less \cup {Append(l, x) : l \in {m \in less : Len(m) = n - 1}, x \in Legend}

Init ==
    /\ phase = "idle"
    /\ cls = ""
    /\ kw0 = <<>>
    /\ self = <<>>
    /\ arg = <<>>
    /\ dflt = KeycapDefaults
    /\ err = ""
    /\ cmd = <<>>
    /\ qin = <<>>
    /\ qout = <<>>
    /\ made = {}
    /\ args = <<>>
    /\ KEYCAPS = <<>>
    /\ pc = "off"
    /\ ni = 0
    /\ ki = 0
    /\ matched = FALSE
    /\ fs = {}
    /\ events = <<>>

\* c(**kw): the constructor call of one catalog entry
Construct(c, kw) ==
    /\ phase = "idle"
    /\ LET st == ClassInit(c, [self |-> <<>>, arg |-> kw, dflt |-> dflt,
                               err |-> "", copy |-> <<>>], DOMAIN kw)
       IN  /\ phase' = IF st.err = "" THEN "built" ELSE "raised"
           /\ self' = IF st.err = "" THEN st.self ELSE <<>>
           /\ arg' = st.arg
           /\ dflt' = st.dflt
           /\ err' = st.err
    /\ cls' = c
    /\ kw0' = kw
    /\ UNCHANGED <<cmd, qin, qout, made>>
    /\ UNCHANGED dvars

\* str(keycap) that stores the rounded key_length back in the instance
SerializeStoring ==
    /\ phase \in {"built", "printed"}
    /\ cmd' = StrOf([self |-> self, arg |-> arg, dflt |-> dflt])
    /\ phase' = IF phase = "built" THEN "printed" ELSE "reprinted"
    /\ self' = [self EXCEPT !["key_length"] =
                  Own(Round2(Deref([self |-> self, arg |-> arg, dflt |-> dflt],
                                   "key_length")))]
    /\ UNCHANGED <<cls, kw0, arg, dflt, err, qin, qout, made>>
    /\ UNCHANGED dvars

\* str(keycap), a first and a second time
Serialize ==
    /\ phase \in {"built", "printed"}
    /\ cmd' = StrOf([self |-> self, arg |-> arg, dflt |-> dflt])
    /\ phase' = IF phase = "built" THEN "printed" ELSE "reprinted"
    /\ UNCHANGED <<cls, kw0, self, arg, dflt, err, qin, qout, made>>
    /\ UNCHANGED dvars

\* keycap.quote(legends) on its own
Quote(legends) ==
    /\ phase = "built"
    /\ cls = "Keycap" /\ kw0 = <<>>
    /\ qin' = legends
    /\ qout' = quote(legends)
    /\ phase' = "quoted"
    /\ UNCHANGED <<cls, kw0, self, arg, dflt, err, cmd, made>>
    /\ UNCHANGED dvars

\* The caller lets go of the instance and of its arguments; the default
\* objects of Keycap.__init__ stay as they are
Release ==
    /\ phase # "idle"
    /\ phase' = "idle"
    /\ cls' = ""
    /\ kw0' = <<>>
    /\ self' = <<>>
    /\ arg' = <<>>
    /\ err' = ""
    /\ cmd' = <<>>
    /\ qin' = <<>>
    /\ qout' = <<>>
    /\ UNCHANGED <<dflt, made>>
    /\ UNCHANGED dvars

\* Constructing the family classes
Next ==
    \/ \E c \in Classes, kw \in KwSets(FamilyValues, MaxKw) : Construct(c, kw)
    \/ Release

Spec == Init /\ [][Next]_vars

\* Constructing and serializing
PrintNext ==
    \/ \E c \in PrintClasses, kw \in KwSets(PrintValues, MaxKw) : Construct(c, kw)
    \/ Serialize
    \/ \E l \in LegendLists(MaxLegends) : Quote(l)
    \/ Release

PrintSpec == Init /\ [][PrintNext]_vars

\* Constructing the size families
NameNext ==
    \/ \E c \in SizeClasses, kw \in KwSets(NameValues, MaxKw) : Construct(c, kw)
    \/ Release

NameSpec == Init /\ [][NameNext]_vars

\* At most this many earlier instances are held while a further one is built
MaxKept == 2

\* The classes of the instances the caller holds on to: Keycap itself, a
\* family that only assigns, two that edit list elements in place
KeptClasses ==
    {"Keycap", "riskeyboard70_alphas", "riskeyboard70_fontawesome",
     "riskeyboard70_1_25U"}

\* The keywords of the calls: none, so that every list option is the default
\* object, or one list of the caller's
IsolationKws ==
    {<<>>,
     [fonts |-> List(<<Str(<<"F1">>), Str(<<"F2">>), Str(<<"F3">>), Str(<<"F4">>)>>)],
     [trans |-> List(<<V3(90000, 90000, 90000), V3(80000, 80000, 80000),
                       V3(70000, 70000, 70000), V3(60000, 60000, 60000)>>)]}

\* The instance just built goes into the list under construction, with the
\* keyword objects it was given, and the next constructor call can start
Keep ==
    /\ phase = "built"
    /\ cls \in KeptClasses
    /\ Cardinality(made) < MaxKept
    /\ made' = made \cup {[cls |-> cls, self |-> self, arg |-> arg]}
    /\ phase' = "idle"
    /\ cls' = ""
    /\ kw0' = <<>>
    /\ self' = <<>>
    /\ arg' = <<>>
    /\ UNCHANGED <<dflt, err, cmd, qin, qout>>
    /\ UNCHANGED dvars

\* Constructing one instance after another, the earlier ones still held
IsolationNext ==
    \/ \E c \in Classes, kw \in IsolationKws : Construct(c, kw)
    \/ Keep
    \/ Release

IsolationSpec == Init /\ [][IsolationNext]_vars

---------------------------------------------------------------------------
(* riskeyboard_70.py: the batch driver *)

\* The variables of the parameter model
kvars == <<phase, cls, kw0, self, arg, dflt, err, cmd, qin, qout, made>>

\* One catalog entry: the attributes the call c(**kw) leaves in the instance
Entry(c, kw) ==
    LET st == ClassInit(c, [self |-> <<>>, arg |-> kw, dflt |-> KeycapDefaults,
                            err |-> "", copy |-> <<>>], DOMAIN kw)
    IN  [f \in Fields |-> Deref(st, f)]

\* KEYCAPS as the module builds it: three of its entries, in their order
Catalog ==
    <<Entry("riskeyboard70_alphas",
            [name |-> Str(<<"blank">>), legends |-> List(<<Str(<<>>)>>)]),
      Entry("riskeyboard70_alphas", [legends |-> List(<<Str(<<"fn">>)>>)]),
      Entry("riskeyboard70_1_4U", [legends |-> List(<<Str(<<"alt">>)>>)])>>

\* An entry as the instance str() is called on
Plain(e) == [self |-> [f \in Fields |-> Own(e[f])], arg |-> <<>>, dflt |-> <<>>]

\* str.lower()
LowerAtom(a) ==
    CASE a = "FN" -> "fn"
      [] a = "1.4U_" -> "1.4u_"
      [] OTHER -> a
Lower(txt) == [i \in 1..Len(txt) |-> LowerAtom(txt[i])]

\* The names a command line gives
ArgNames ==
    {<<>>,
     << <<"fn">> >>, << <<"FN">> >>, << <<"nokey">> >>,
     << <<"fn">>, <<"fn">> >>,
     << <<"fn">>, <<"fn", "_legends">> >>,
     << <<"blank">>, <<"1.4u_", "alt">> >>}

\* The command lines: none at all, --keycaps, and --out out with or without
\* --force, --legends and names
ArgSets ==
    {[force |-> FALSE, legends |-> FALSE, keycaps |-> k, names |-> <<>>,
      out |-> <<".">>, argc |-> IF k THEN 2 ELSE 1] : k \in BOOLEAN}
    \cup {[force |-> f, legends |-> l, keycaps |-> FALSE, names |-> n,
           out |-> <<"out">>, argc |-> 3 + Len(n)] :
             f \in BOOLEAN, l \in BOOLEAN, n \in ArgNames}

\* The files that exist when the driver starts: without the output
\* directory none, with it any of three outputs of earlier runs
InitialFiles ==
    {{<<".">>}}
    \cup {{<<".">>, <<"out">>} \cup S :
            S \in SUBSET {DriverFile(<<"out">>, <<"fn">>),
                          DriverFile(<<"out">>, <<"fn", "_legends">>),
                          DriverFile(<<"out">>, <<"1.4U_", "alt">>)}}

\* Where the loops go after an entry
NamedNext(n, k) ==
    IF k < Len(KEYCAPS) THEN [pc |-> "named", ni |-> n, ki |-> k + 1]
    ELSE IF n < Len(args.names) THEN [pc |-> "named", ni |-> n + 1, ki |-> 1]
    ELSE [pc |-> "done", ni |-> n, ki |-> k]

AllNext(k) ==
    IF k < Len(KEYCAPS) THEN [pc |-> "all", ni |-> ni, ki |-> k + 1]
    ELSE IF args.legends THEN [pc |-> "all_legends", ni |-> ni, ki |-> 1]
    ELSE [pc |-> "done", ni |-> ni, ki |-> k]

LegendsNext(k) ==
    IF k < Len(KEYCAPS) THEN [pc |-> "all_legends", ni |-> ni, ki |-> k + 1]
    ELSE [pc |-> "done", ni |-> ni, ki |-> k]

Goto(pos) == pc' = pos.pc /\ ni' = pos.ni /\ ki' = pos.ki

\* "... exists; skipping..."
Skip(kind, file) ==
    [ev |-> "skip", kind |-> kind, pass |-> ni, ki |-> ki, file |-> file,
     existed |-> file \in fs]

\* getstatusoutput(str(keycap)) is called: the file the driver announces, and
\* of the command the file after -o and the two RENDER flags
Call(kind, keycap, file) ==
    LET c == StrOf(Plain(keycap))
    IN  [ev |-> "invoke", kind |-> kind, pass |-> ni, ki |-> ki, file |-> file,
         existed |-> file \in fs, render |-> keycap.render, out |-> c.out,
         first |-> c.flags[1].text, last |-> c.flags[Len(c.flags)].text]

DriverInit ==
    /\ phase = "idle" /\ cls = "" /\ kw0 = <<>> /\ self = <<>> /\ arg = <<>>
    /\ dflt = KeycapDefaults /\ err = "" /\ cmd = <<>> /\ qin = <<>> /\ qout = <<>>
    /\ made = {}
    /\ args \in ArgSets
    /\ KEYCAPS = Catalog
    /\ pc = "main"
    /\ ni = 0
    /\ ki = 0
    /\ matched = FALSE
    /\ fs \in InitialFiles
    /\ events = <<>>

\* __main__ up to the loops: help or the list of names and exit, else the
\* output directory is made when it is missing
Main ==
    /\ pc = "main"
    /\ IF args.argc = 1 \/ args.keycaps
       THEN pc' = "exit" /\ UNCHANGED <<ni, ki, fs>>
       ELSE /\ fs' = fs \cup {args.out}
            /\ pc' = IF args.names # <<>> THEN "named" ELSE "all"
            /\ ni' = 1
            /\ ki' = 1
    /\ matched' = FALSE
    /\ UNCHANGED <<args, KEYCAPS, events>>
    /\ UNCHANGED kvars

\* The named loop at one entry: the name test, and for a match the keycap
\* render or its skip
NamedKeycap ==
    /\ pc = "named"
    /\ LET keycap == KEYCAPS[ki]
           file == DriverFile(args.out, PyStr(keycap.name))
       IN  IF Lower(PyStr(keycap.name)) # Lower(args.names[ni])
           THEN /\ Goto(NamedNext(ni, ki))
                /\ UNCHANGED <<KEYCAPS, matched, events>>
           ELSE /\ KEYCAPS' = [KEYCAPS EXCEPT ![ki].output_path = Str(args.out)]
                /\ matched' = TRUE
                /\ IF ~args.force /\ file \in fs
                   THEN /\ events' = Append(events, Skip("body", file))
                        /\ pc' = "named_legends"
                   ELSE /\ events' = Append(events, Call("body", KEYCAPS'[ki], file))
                        /\ pc' = "wait_named"
                /\ UNCHANGED <<ni, ki>>
    /\ UNCHANGED <<args, fs>>
    /\ UNCHANGED kvars

\* The named loop after the keycap of a matching entry: with --legends the
\* entry is renamed and rendered again, or skipped when that file exists
NamedLegends ==
    /\ pc = "named_legends"
    /\ IF ~args.legends
       THEN /\ Goto(NamedNext(ni, ki))
            /\ UNCHANGED <<KEYCAPS, events>>
       ELSE LET renamed ==
                    [KEYCAPS EXCEPT ![ki].name = Str(PyStr(@) \o <<"_legends">>)]
                file == DriverFile(args.out, PyStr(renamed[ki].name))
            IN  /\ KEYCAPS' = renamed
                /\ IF file \in fs
                   THEN /\ events' = Append(events, Skip("legends", file))
                        /\ Goto(NamedNext(ni, ki))
                   ELSE /\ events' = Append(events, Call("legends", renamed[ki], file))
                        /\ pc' = "wait_named_legends"
                        /\ UNCHANGED <<ni, ki>>
    /\ UNCHANGED <<args, matched, fs>>
    /\ UNCHANGED kvars

\* The all-keycaps loop rendering an entry whether or not its file exists
AllKeycapUntested ==
    /\ pc = "all"
    /\ LET file == DriverFile(args.out, PyStr(KEYCAPS[ki].name))
       IN  /\ KEYCAPS' = [KEYCAPS EXCEPT ![ki].output_path = Str(args.out)]
           /\ events' = Append(events, Call("body", KEYCAPS'[ki], file))
           /\ pc' = "wait_all"
           /\ UNCHANGED <<ni, ki>>
    /\ UNCHANGED <<args, matched, fs>>
    /\ UNCHANGED kvars

\* The all-keycaps loop starting the renderer and going on without waiting
AllKeycapDetached ==
    /\ pc = "all"
    /\ LET file == DriverFile(args.out, PyStr(KEYCAPS[ki].name))
       IN  /\ KEYCAPS' = [KEYCAPS EXCEPT ![ki].output_path = Str(args.out)]
           /\ IF ~args.force /\ file \in fs
              THEN events' = Append(events, Skip("body", file))
              ELSE events' = Append(events, Call("body", KEYCAPS'[ki], file))
           /\ Goto(AllNext(ki))
    /\ UNCHANGED <<args, matched, fs>>
    /\ UNCHANGED kvars

\* The all-keycaps loop at one entry: the render or its skip
AllKeycap ==
    /\ pc = "all"
    /\ LET file == DriverFile(args.out, PyStr(KEYCAPS[ki].name))
       IN  /\ KEYCAPS' = [KEYCAPS EXCEPT ![ki].output_path = Str(args.out)]
           /\ IF ~args.force /\ file \in fs
              THEN /\ events' = Append(events, Skip("body", file))
                   /\ Goto(AllNext(ki))
              ELSE /\ events' = Append(events, Call("body", KEYCAPS'[ki], file))
                   /\ pc' = "wait_all"
                   /\ UNCHANGED <<ni, ki>>
    /\ UNCHANGED <<args, matched, fs>>
    /\ UNCHANGED kvars

\* The legends loop renaming an entry before it tests for a blank legend
AllLegendsRenamingFirst ==
    /\ pc = "all_legends"
    /\ LET renamed ==
               [KEYCAPS EXCEPT ![ki].name = Str(PyStr(@) \o <<"_legends">>)]
           changed ==
               [renamed EXCEPT ![ki].output_path = Str(args.out),
                               ![ki].render = List(<<Str(<<"legends">>)>>)]
           file == DriverFile(args.out, PyStr(changed[ki].name))
       IN  IF KEYCAPS[ki].legends = List(<<Str(<<>>)>>)
           THEN /\ KEYCAPS' = renamed
                /\ Goto(LegendsNext(ki))
                /\ UNCHANGED events
           ELSE /\ KEYCAPS' = changed
                /\ IF ~args.force /\ file \in fs
                   THEN /\ events' = Append(events, Skip("legends", file))
                        /\ Goto(LegendsNext(ki))
                   ELSE /\ events' = Append(events, Call("legends", changed[ki], file))
                        /\ pc' = "wait_all_legends"
                        /\ UNCHANGED <<ni, ki>>
    /\ UNCHANGED <<args, matched, fs>>
    /\ UNCHANGED kvars

\* The legends loop at one entry: an entry without legends is passed over,
\* any other is renamed, set to render its legends, and rendered or skipped
AllLegends ==
    /\ pc = "all_legends"
    /\ LET changed ==
               [KEYCAPS EXCEPT ![ki].name = Str(PyStr(@) \o <<"_legends">>),
                               ![ki].output_path = Str(args.out),
                               ![ki].render = List(<<Str(<<"legends">>)>>)]
           file == DriverFile(args.out, PyStr(changed[ki].name))
       IN  IF KEYCAPS[ki].legends = List(<<Str(<<>>)>>)
           THEN /\ Goto(LegendsNext(ki))
                /\ UNCHANGED <<KEYCAPS, events>>
           ELSE /\ KEYCAPS' = changed
                /\ IF ~args.force /\ file \in fs
                   THEN /\ events' = Append(events, Skip("legends", file))
                        /\ Goto(LegendsNext(ki))
                   ELSE /\ events' = Append(events, Call("legends", changed[ki], file))
                        /\ pc' = "wait_all_legends"
                        /\ UNCHANGED <<ni, ki>>
    /\ UNCHANGED <<args, matched, fs>>
    /\ UNCHANGED kvars

\* getstatusoutput returning, with a nonzero exit code ending the run
ReturnAborting(retcode, wrote) ==
    /\ pc \in {"wait_named", "wait_named_legends", "wait_all", "wait_all_legends"}
    /\ wrote => retcode = 0
    /\ LET call == events[Len(events)]
       IN  /\ events' = Append(events,
                [ev |-> "return", kind |-> call.kind, pass |-> call.pass,
                 ki |-> call.ki, file |-> call.file, retcode |-> retcode,
                 success |-> retcode = 0])
           /\ fs' = IF wrote THEN fs \cup {call.file} ELSE fs
    /\ IF retcode # 0 THEN pc' = "done" /\ UNCHANGED <<ni, ki>>
       ELSE CASE pc = "wait_named" -> pc' = "named_legends" /\ UNCHANGED <<ni, ki>>
              [] pc = "wait_named_legends" -> Goto(NamedNext(ni, ki))
              [] pc = "wait_all" -> Goto(AllNext(ki))
              [] pc = "wait_all_legends" -> Goto(LegendsNext(ki))
    /\ UNCHANGED <<args, KEYCAPS, matched>>
    /\ UNCHANGED kvars

\* getstatusoutput returns: the renderer has exited with retcode and, when it
\* succeeded, may have left the file the driver tests for; "rendered
\* successfully" is printed for retcode 0, and the loop goes on
Return(retcode, wrote) ==
    /\ pc \in {"wait_named", "wait_named_legends", "wait_all", "wait_all_legends"}
    /\ wrote => retcode = 0
    /\ LET call == events[Len(events)]
       IN  /\ events' = Append(events,
                [ev |-> "return", kind |-> call.kind, pass |-> call.pass,
                 ki |-> call.ki, file |-> call.file, retcode |-> retcode,
                 success |-> retcode = 0])
           /\ fs' = IF wrote THEN fs \cup {call.file} ELSE fs
    /\ CASE pc = "wait_named" -> pc' = "named_legends" /\ UNCHANGED <<ni, ki>>
         [] pc = "wait_named_legends" -> Goto(NamedNext(ni, ki))
         [] pc = "wait_all" -> Goto(AllNext(ki))
         [] pc = "wait_all_legends" -> Goto(LegendsNext(ki))
    /\ UNCHANGED <<args, KEYCAPS, matched>>
    /\ UNCHANGED kvars

\* The exit codes the renderer returns
ExitCodes == {0, 1}

\* One run of the driver
DriverNext ==
    \/ Main
    \/ NamedKeycap
    \/ NamedLegends
    \/ AllKeycap
    \/ AllLegends
    \/ \E retcode \in ExitCodes, wrote \in BOOLEAN : Return(retcode, wrote)

DriverSpec == DriverInit /\ [][DriverNext]_vars

---------------------------------------------------------------------------
(* Override precedence and layered defaults *)

\* The instance exists: the constructor returned
Built == phase \in {"built", "printed", "reprinted", "quoted"}

\* C1: constructing any class with an explicit keyword F=v yields an instance
\* whose field F equals v exactly, whatever the layers of the chain assign or
\* edit in place.  (The name, which the constructors default and tag by design,
\* is left out of the comparison.)
C1_OverridePrecedence ==
    Built => \A f \in (DOMAIN kw0 \cap Fields) \ {"name"} : Value(f) = kw0[f]

RECURSIVE Chain(_)
\* The classes of a chain below Keycap, the most derived last
Chain(c) == IF c = "Keycap" THEN <<>> ELSE Append(Chain(Class[c].parent), c)

\* The name the base constructor leaves when no non-empty name is given
NameRule(kw) ==
    LET legends == IF "legends" \in DOMAIN kw THEN kw["legends"]
                   ELSE List(<<Str(<<>>)>>)
    IN  IF legends.e # <<>> /\ legends.e[1].s # <<>>
        THEN legends.e[1]
        ELSE Str(<<"keycap">>)

RECURSIVE LayerDefault(_, _, _, _, _)
\* What the statements of one layer make of a field's default v: an
\* assignment replaces it, an element edit changes one element of it
LayerDefault(ops, v, f, hd, spacebar) ==
    IF ops = <<>> THEN v
    ELSE LET o == Head(ops)
             nv == CASE o.op = "set" /\ o.f = f -> o.v
                     [] o.op = "setat" /\ o.f = f -> List([v.e EXCEPT ![o.i + 1] = o.v])
                     [] o.op = "homing" /\ f = "homing_dot_length" /\ hd -> Num(30000)
                     [] o.op = "spacebar" /\ f = "key_rotation" /\ spacebar ->
                            SPACEBAR_ROTATION
                     [] o.op = "prefix" /\ f = "name" ->
                            IF StartsWith(v.s, o.tag) THEN v ELSE Str(<<o.tag>> \o v.s)
                     [] OTHER -> v
         IN  LayerDefault(Tail(ops), nv, f, hd, spacebar)

RECURSIVE ChainDefault(_, _, _, _, _)
\* The layers of a chain from the base up, from layer j on
ChainDefault(ch, j, v, f, kw) ==
    IF j > Len(ch) THEN v
    ELSE LET hd == /\ Class[ch[j]].homing
                   /\ "homing_dot" \in DOMAIN kw /\ Truthy(kw["homing_dot"])
                   /\ \A k \in (j + 1)..Len(ch) : ~Class[ch[k]].homing
             spacebar == "dish_invert" \in DOMAIN kw /\ Truthy(kw["dish_invert"])
         IN  ChainDefault(ch, j + 1, LayerDefault(Class[ch[j]].ops, v, f, hd, spacebar),
                          f, kw)

\* The default of field f for class c: the Keycap default, then the layers
ExpectedDefault(c, kw, f) ==
    ChainDefault(Chain(c), 1, IF f = "name" THEN NameRule(kw) ELSE KeycapDefaults[f],
                 f, kw)

\* C2: a field the caller passes no keyword for ends with the default of the
\* most derived layer that sets it, the element edits of the layers above that
\* one applied on top, and with the Keycap default when no layer sets it.
C2_DefaultFallback ==
    Built => \A f \in Fields \ DOMAIN kw0 : Value(f) = ExpectedDefault(cls, kw0, f)

\* riskeyboard70_backspace with other keywords and no font_sizes: the list of
\* alphas, element 0 set by 2_6U and again by backspace
C2_Witness ==
    /\ phase = "built"
    /\ cls = "riskeyboard70_backspace"
    /\ DOMAIN kw0 = {"legends", "trans"}
    /\ Value("font_sizes") = List(<<Num(30000), Num(40000), Num(40000)>>)
    /\ Value("stem_locations") = Stems(115000, -120000)
    /\ Value("key_height") = Num(90000)

\* C3: the base constructor, given no name (None or empty), takes legends[0]
\* as the name when legends is non-empty and legends[0] is a non-empty string,
\* and "keycap" otherwise; a non-empty name is kept as given.
C3_NameDefaulting ==
    (Built /\ cls = "Keycap") =>
        LET name == IF "name" \in DOMAIN kw0 THEN kw0["name"] ELSE None
            legends == IF "legends" \in DOMAIN kw0 THEN kw0["legends"]
                       ELSE List(<<Str(<<>>)>>)
        IN  IF name = None \/ name = Str(<<>>)
            THEN IF legends.e # <<>> /\ legends.e[1] # Str(<<>>)
                 THEN Value("name") = legends.e[1]
                 ELSE Value("name") = Str(<<"keycap">>)
            ELSE Value("name") = name

\* Keycap(name="", legends=["X"]) is named "X"
C3_Witness ==
    /\ phase = "built"
    /\ cls = "Keycap"
    /\ kw0 = [name |-> Str(<<>>), legends |-> List(<<Str(<<"X">>)>>)]
    /\ Value("name") = Str(<<"X">>)

---------------------------------------------------------------------------
(* The serialized command *)

\* The names that follow "-D " in a command line, in order
FlagNamesIn(txt) ==
    LET at == SelectSeq([j \in 1..(Len(txt) - 1) |-> j], LAMBDA j : txt[j] = "-D ")
    IN  [k \in 1..Len(at) |-> txt[at[k] + 1]]

\* The flags of a command with a given name
FlagsNamed(c, n) == {i \in 1..Len(c.flags) : c.flags[i].name = n}

\* C4: the command line holds exactly two -D RENDER= flags, both with the
\* encoded value of the render field, one the first -D flag and one the last
\* before the script path.
C4_DuplicateRender ==
    phase = "printed" =>
        LET names == FlagNamesIn(CmdText(cmd))
            n == Len(names)
        IN  /\ Cardinality({i \in 1..n : names[i] = "RENDER"}) = 2
            /\ names[1] = "RENDER" /\ names[n] = "RENDER"
            /\ FlagsNamed(cmd, "RENDER") = {1, Len(cmd.flags)}
            /\ \A i \in FlagsNamed(cmd, "RENDER") :
                  cmd.flags[i].text = EscapeDQ(JsonDumps(Value("render")))

\* render=["legends"] is serialized, both flags carrying [\"legends\"]
C4_Witness ==
    /\ phase = "printed"
    /\ "render" \in DOMAIN kw0
    /\ cmd.flags[1].text = <<"[", BS, DQ, "legends", BS, DQ, "]">>
    /\ cmd.flags[Len(cmd.flags)].text = cmd.flags[1].text

\* The -D flags of the external interface, as the specification lists them
ListedFlags ==
    <<"RENDER", "KEY_PROFILE", "KEY_LENGTH", "KEY_WIDTH", "KEY_TOP_DIFFERENCE",
      "KEY_ROTATION", "KEY_HEIGHT", "WALL_THICKNESS", "UNIFORM_WALL_THICKNESS",
      "DISH_THICKNESS", "DISH_INVERT", "DISH_TYPE", "DISH_DEPTH", "DISH_TILT",
      "DISH_TILT_CURVE", "DISH_FN", "DISH_CORNER_FN", "POLYGON_LAYERS",
      "POLYGON_LAYER_ROTATION", "POLYGON_EDGES", "POLYGON_ROTATION",
      "CORNER_RADIUS", "CORNER_RADIUS_CURVE", "STEM_TYPE", "STEM_TOP_THICKNESS",
      "STEM_INSET", "STEM_INSIDE_TOLERANCE", "STEM_OUTSIDE_TOLERANCE_X",
      "STEM_OUTSIDE_TOLERANCE_Y", "STEM_SIDE_SUPPORTS", "STEM_SIDES_WALL_THICKNESS",
      "STEM_LOCATIONS", "STEM_SNAP_FIT", "STEM_WALLS_INSET", "STEM_WALLS_TOLERANCE",
      "HOMING_DOT_LENGTH", "HOMING_DOT_WIDTH", "HOMING_DOT_X", "HOMING_DOT_Y",
      "HOMING_DOT_Z", "LEGENDS", "LEGEND_FONTS", "LEGEND_FONT_SIZES",
      "LEGEND_TRANS", "LEGEND_TRANS2", "LEGEND_ROTATION", "LEGEND_ROTATION2",
      "LEGEND_SCALE", "LEGEND_UNDERSET", "RENDER">>

\* Does txt start with pre, and end with suf?
HasPrefix(txt, pre) == Len(txt) >= Len(pre) /\ SubSeq(txt, 1, Len(pre)) = pre
HasSuffix(txt, suf) ==
    Len(txt) >= Len(suf) /\ SubSeq(txt, Len(txt) - Len(suf) + 1, Len(txt)) = suf

\* C5: the command is the tool path, " -o ", the output file, then exactly the
\* listed -D flags in the listed order, each name once except RENDER, then the
\* script path as the last token, whatever the field values are.
C5_FlagOrder ==
    phase = "printed" =>
        LET txt == CmdText(cmd)
        IN  /\ FlagNamesIn(txt) = ListedFlags
            /\ HasPrefix(txt, PyStr(Value("openscad_path")) \o <<" -o ">> \o cmd.out
                                \o <<" ", "-D ">>)
            /\ HasSuffix(txt, <<DQ, " ", "scad", BS, "keycap_playground.scad">>)
            /\ \A n \in {ListedFlags[i] : i \in 1..Len(ListedFlags)} \ {"RENDER"} :
                  Cardinality(FlagsNamed(cmd, n)) = 1

\* A command serialized from keyword values other than the defaults
C5_Witness ==
    /\ phase = "printed"
    /\ DOMAIN kw0 = {"key_length", "legends"}
    /\ Len(cmd.flags) = Len(ListedFlags)
    /\ FlagNamesIn(CmdText(cmd))[3] = "KEY_LENGTH"

\* The instance with attribute f bound to another value
With(f, v) == [self |-> [self EXCEPT ![f] = Own(v)], arg |-> arg, dflt |-> dflt]

\* A value no field holds
Probe(f) ==
    IF f = "legends" THEN List(<<Str(<<"probe">>)>>) ELSE Str(<<"probe">>)

\* C6: every configuration field other than name and the path fields is
\* emitted as a -D flag: none, legend_carved included, is left out of the
\* command line, so the command changes when the field does.
C6_EveryFieldEmitted ==
    phase = "printed" =>
        \A f \in Fields \ {"name", "output_path", "openscad_path",
                           "keycap_playground_path"} :
            /\ \E i \in 1..Len(Flags) : Flags[i].field = f
            /\ StrOf(With(f, Probe(f))) # cmd

\* C7: the file after -o is <output_path>/<name>.stl, the same path string
\* the batch driver tests for existence.
C7_OutputPathAgreement ==
    phase = "printed" =>
        cmd.out = DriverFile(PyStr(Value("output_path")), PyStr(Value("name")))

\* The numeric flags: those interpolated as they are or through round()
NumericFlags(c) ==
    {i \in 1..Len(c.flags) :
        Flags[i].enc \in {"plain", "round"} /\ Value(Flags[i].field).t = "num"}

\* C8 as claimed: every numeric field value is emitted exactly as stored, the
\* values of KEY_LENGTH and KEY_WIDTH included.
C8_Verbatim ==
    phase = "printed" =>
        \A i \in NumericFlags(cmd) :
            /\ cmd.flags[i].arg = Value(Flags[i].field)
            /\ cmd.flags[i].text = NumText(Value(Flags[i].field))

\* C8 as amended: every numeric field value is emitted exactly as stored,
\* except key_length and key_width, which go through round(x, 2): an int is
\* emitted as it is, a float as the nearest float with two decimal places
\* (so unchanged when it has no more than two).
C8_VerbatimButRounded ==
    phase = "printed" =>
        \A i \in NumericFlags(cmd) :
            LET v == Value(Flags[i].field)
                a == cmd.flags[i].arg
            IN  /\ cmd.flags[i].text = NumText(a)
                /\ IF Flags[i].field \in {"key_length", "key_width"} /\ v.f
                   THEN /\ a.t = "num" /\ a.f
                        /\ a.m % 100 = 0
                        /\ Abs(a.m - v.m) <= 50
                        /\ (v.m % 100 = 0 => a = v)
                   ELSE a = v

\* key_length=13.706 is emitted as 13.71, key_height=7.5 as 7.5
C8_Witness ==
    /\ phase = "printed"
    /\ kw0 = [key_length |-> Num(137060), key_height |-> Num(75000)]
    /\ cmd.flags[3].text = <<"13.71">>
    /\ cmd.flags[7].text = <<"7.5">>

---------------------------------------------------------------------------
(* The legend array *)

\* A legend as C9 and C10 have it wrapped: the double quote as the token
\* double quote, backslash, double quote, double quote; any other legend
\* between two backslash-double-quote pairs
Wrapped(legend) ==
    IF legend = <<DQ>> THEN <<DQ, BS, DQ, DQ>>
    ELSE <<BS, DQ>> \o legend \o <<BS, DQ>>

RECURSIVE JoinComma(_)
\* The texts with one comma between each two neighbours
JoinComma(ts) ==
    IF ts = <<>> THEN <<>>
    ELSE IF Len(ts) = 1 THEN ts[1]
    ELSE ts[1] \o <<CM>> \o JoinComma(Tail(ts))

\* A text without its commas
NoCommas(txt) == SelectSeq(txt, LAMBDA x : x # CM)

\* C9: quote returns "[", the n wrapped elements with exactly one comma
\* between each two neighbours and none after the last, and "]", whatever the
\* legends are.
C9_LegendSeparation ==
    phase = "quoted" =>
        qout = <<"[">> \o JoinComma([i \in 1..Len(qin) |-> Wrapped(qin[i])]) \o <<"]">>

---------------------------------------------------------------------------
(* Serialization leaves the configuration alone *)

---------------------------------------------------------------------------
(* Positional alignment *)

\* The lists indexed by legend slot
LegendAttributes ==
    {"fonts", "font_sizes", "trans", "trans2", "rotation", "rotation2", "scale",
     "underset"}

RECURSIVE SplitTop(_, _, _, _)
\* The element texts of a list text: txt between the outer brackets, cut at
\* each comma-space that is inside no inner bracket
SplitTop(txt, depth, cur, acc) ==
    IF txt = <<>> THEN (IF cur = <<>> /\ acc = <<>> THEN <<>> ELSE Append(acc, cur))
    ELSE IF depth = 0 /\ Len(txt) >= 2 /\ txt[1] = CM /\ txt[2] = " "
         THEN SplitTop(SubSeq(txt, 3, Len(txt)), 0, <<>>, Append(acc, cur))
    ELSE SplitTop(Tail(txt),
                  IF txt[1] = "[" THEN depth + 1
                  ELSE IF txt[1] = "]" THEN depth - 1 ELSE depth,
                  Append(cur, txt[1]), acc)

\* The entries a flag's text lists
Entries(txt) == SplitTop(SubSeq(txt, 2, Len(txt) - 1), 0, <<>>, <<>>)

\* C12: the flag of each legend attribute list holds every entry of the stored
\* list in stored order, whatever the length of legends; the constructor and
\* postinit keep a passed list at its length, longer or shorter than legends.
C12_PositionalAlignment ==
    phase = "printed" =>
        \A i \in 1..Len(Flags) :
            Flags[i].field \in LegendAttributes =>
                LET f == Flags[i].field
                    v == Value(f)
                    txt == cmd.flags[i].text
                    ent == Entries(txt)
                IN  /\ txt[1] = "[" /\ txt[Len(txt)] = "]"
                    /\ Len(ent) = Len(v.e)
                    /\ \A k \in 1..Len(v.e) :
                          ent[k] = IF Flags[i].enc = "fmt"
                                   THEN <<BS, DQ>> \o v.e[k].s \o <<BS, DQ>>
                                   ELSE PyRepr(v.e[k])
                    /\ f \in DOMAIN kw0 => Len(v.e) = Len(kw0[f].e)
                    /\ (f \in DOMAIN kw0 /\ cls = "Keycap") => v = kw0[f]

\* Four fonts with one legend: all four are written
C12_Witness ==
    /\ phase = "printed"
    /\ DOMAIN kw0 = {"fonts", "legends"}
    /\ Len(Value("legends").e) = 1
    /\ Len(Value("fonts").e) = 4
    /\ cmd.flags[42].text =
          <<"[", BS, DQ, "F1", BS, DQ, CM, " ", BS, DQ, "F2", BS, DQ, CM, " ",
            BS, DQ, "F3", BS, DQ, CM, " ", BS, DQ, "F4", BS, DQ, "]">>

---------------------------------------------------------------------------
(* Errors *)

\* C16: constructing any family class with any keyword arguments and any
\* values, and serializing the instance, completes without raising an error.
C16_NeverRaises == phase # "raised" /\ err = ""

---------------------------------------------------------------------------
(* Size tags *)

\* The tag of each size family and of the classes derived from one
TagOf ==
    [riskeyboard70_1_25U |-> "1.25U_", riskeyboard70_1_4U |-> "1.4U_",
     riskeyboard70_1_5U |-> "1.5U_", riskeyboard70_1_6U |-> "1.6U_",
     riskeyboard70_1_75U |-> "1.75U_", riskeyboard70_2U |-> "2U_",
     riskeyboard70_2_25U |-> "2.25U_", riskeyboard70_2_5U |-> "2.5U_",
     riskeyboard70_2_6U |-> "2.6U_", riskeyboard70_2_75U |-> "2.75U_",
     riskeyboard70_6_25U |-> "6.25U_", riskeyboard70_7U |-> "7U_",
     riskeyboard70_tab |-> "1.5U_", riskeyboard70_enter |-> "2.6U_",
     riskeyboard70_backspace |-> "2.6U_"]

\* C19: the name of an instance of a size family, or of a class derived from
\* one, starts with the family's tag exactly once, followed by the caller's
\* name (the defaulted name when the caller passed none); a name passed with
\* the tag is kept as it is, however many layers re-apply the keywords.
C19_SizeTagOnce ==
    (Built /\ cls \in DOMAIN TagOf) =>
        LET tag == TagOf[cls]
            n == Value("name").s
            given == IF "name" \in DOMAIN kw0 THEN kw0["name"].s ELSE NameRule(kw0).s
        IN  /\ Value("name").t = "str"
            /\ n # <<>> /\ n[1] = tag
            /\ Len(n) >= 2 => n[2] # tag
            /\ n = IF given # <<>> /\ given[1] = tag THEN given ELSE <<tag>> \o given

\* riskeyboard70_enter(legends=["X"]): tagged by 2_6U, not again by enter
C19_Witness ==
    /\ phase = "built"
    /\ cls = "riskeyboard70_enter"
    /\ kw0 = [legends |-> List(<<Str(<<"X">>)>>)]
    /\ Value("name") = Str(<<"2.6U_", "X">>)

---------------------------------------------------------------------------
(* The batch driver *)

\* The positions in events of the entries the loops reached (rendered or
\* skipped) and of the renderer calls
Reaches == {i \in 1..Len(events) : events[i].ev \in {"skip", "invoke"}}
Calls == {i \in 1..Len(events) : events[i].ev = "invoke"}

\* The reaches of entry k for a keycap or legends render in pass n
ReachesOf(n, k, kind) ==
    {i \in Reaches : events[i].pass = n /\ events[i].ki = k /\ events[i].kind = kind}

\* C13: without --force the renderer is invoked for an entry the driver
\* selects exactly when <out>/<name>.stl does not exist at the moment the
\* entry is reached; an entry whose file exists is skipped, and an entry is
\* rendered at most once per pass.
C13_SkipIfExists ==
    (pc # "off" /\ ~args.force) =>
        /\ \A i \in Reaches :
              /\ events[i].ev = "invoke" <=> ~events[i].existed
              /\ events[i].ev = "skip" <=> events[i].existed
              /\ (events[i].kind = "body" /\ args.names = <<>>) =>
                    events[i].file = args.out \o <<"/">>
                                       \o Catalog[events[i].ki].name.s \o <<".stl">>
        /\ \A i \in Reaches :
              Cardinality(ReachesOf(events[i].pass, events[i].ki, events[i].kind)) = 1
        /\ (pc = "done" /\ args.names = <<>>) =>
              \A k \in 1..Len(Catalog) : Cardinality(ReachesOf(1, k, "body")) = 1

\* A run over all keycaps without --force that skipped fn, whose file
\* existed, and rendered the others
C13_Witness ==
    /\ pc = "done"
    /\ ~args.force /\ ~args.legends /\ args.names = <<>>
    /\ \E i \in Reaches : events[i].ev = "skip" /\ events[i].ki = 2
    /\ \E i \in Calls : events[i].ki = 1
    /\ \E i \in Calls : events[i].ki = 3

\* C14: with --force every render the run selects, keycap or legends, named
\* or not, is invoked even if its output file exists: nothing is skipped.
C14_ForceRendersAll ==
    (pc # "off" /\ args.force) => \A i \in Reaches : events[i].ev = "invoke"

\* C15: a nonzero exit code neither ends the run nor is retried: a finished
\* run has reached every entry it selects once per pass, whatever the exit
\* codes were, and "rendered successfully" is printed for a render exactly
\* when its exit code is 0.
C15_FailureDoesNotStop ==
    pc # "off" =>
        /\ \A i \in 1..Len(events) :
              events[i].ev = "return" =>
                 (events[i].success <=> events[i].retcode = 0)
        /\ \A i \in Calls :
              Cardinality(ReachesOf(events[i].pass, events[i].ki, events[i].kind)) = 1
        /\ (pc = "done" /\ args.names = <<>>) =>
              \A k \in 1..Len(Catalog) :
                 /\ Cardinality(ReachesOf(1, k, "body")) = 1
                 /\ Cardinality(ReachesOf(1, k, "legends")) =
                       IF args.legends /\ Catalog[k].legends # List(<<Str(<<>>)>>)
                       THEN 1 ELSE 0
        /\ (pc = "done" /\ args.names # <<>> /\ ~args.legends) =>
              \A n \in 1..Len(args.names), k \in 1..Len(Catalog) :
                 Cardinality(ReachesOf(n, k, "body")) =
                    IF Lower(Catalog[k].name.s) = Lower(args.names[n]) THEN 1 ELSE 0

\* A finished run over all keycaps and legends whose first render failed
C15_Witness ==
    /\ pc = "done"
    /\ args.names = <<>> /\ args.legends
    /\ Len(events) >= 2
    /\ events[2].ev = "return" /\ events[2].retcode # 0 /\ ~events[2].success
    /\ \E i \in 1..Len(events) : events[i].ev = "return" /\ events[i].success
    /\ Cardinality(Calls) = 5

\* The renderer has been called
Rendering == Calls # {}

\* C17: once the driver has begun rendering, no catalog entry is mutated:
\* every field keeps the value it had when rendering began.
C17_Frozen == [][Rendering => KEYCAPS' = KEYCAPS]_vars

\* C17 as amended: the driver changes no field of a catalog entry other than
\* output_path, name and render; output_path becomes the --out directory,
\* name only gets _legends appended and only with --legends (in the
\* all-keycaps mode only for an entry that has legends), render only becomes
\* ["legends"] and only in the legends loop of the all-keycaps mode.
C17_FrozenButLegends ==
    [][pc # "off" =>
         \A k \in 1..Len(KEYCAPS) : \A f \in Fields :
            KEYCAPS'[k][f] # KEYCAPS[k][f] =>
               \/ f = "output_path" /\ KEYCAPS'[k][f] = Str(args.out)
               \/ /\ f = "name" /\ args.legends
                  /\ KEYCAPS'[k][f] = Str(KEYCAPS[k][f].s \o <<"_legends">>)
                  /\ args.names = <<>> => KEYCAPS[k].legends # List(<<Str(<<>>)>>)
               \/ /\ f = "render" /\ args.legends /\ args.names = <<>>
                  /\ KEYCAPS'[k][f] = List(<<Str(<<"legends">>)>>)
                  /\ KEYCAPS[k].legends # List(<<Str(<<>>)>>)]_vars

\* After a run over all keycaps and legends: fn is renamed and renders its
\* legends, blank has only its output_path changed
C17_Witness ==
    /\ pc = "done"
    /\ Rendering
    /\ KEYCAPS[2].name = Str(<<"fn", "_legends">>)
    /\ KEYCAPS[2].render = List(<<Str(<<"legends">>)>>)
    /\ KEYCAPS[1] = [Catalog[1] EXCEPT !.output_path = Str(<<"out">>)]
    /\ KEYCAPS[1] # Catalog[1]

\* C18: in a run without names and with --legends the renderer runs one call
\* at a time (a call returns before anything else happens), keycaps are
\* rendered in catalog order, legends in catalog order, and every keycap
\* before every legends render.
C18_RenderOrdering ==
    (pc # "off" /\ args.names = <<>> /\ args.legends) =>
        /\ \A i \in Calls :
              IF i = Len(events)
              THEN pc \in {"wait_all", "wait_all_legends"}
              ELSE /\ events[i + 1].ev = "return"
                   /\ events[i + 1].ki = events[i].ki
                   /\ events[i + 1].kind = events[i].kind
        /\ pc \in {"wait_all", "wait_all_legends"} => Len(events) \in Calls
        /\ \A i \in Calls, j \in Calls :
              i < j =>
                 \/ events[i].kind = "body" /\ events[j].kind = "legends"
                 \/ events[i].kind = events[j].kind /\ events[i].ki < events[j].ki

\* A forced run over all keycaps and legends: three keycaps, then two legends
C18_Witness ==
    /\ pc = "done"
    /\ args.names = <<>> /\ args.legends /\ args.force
    /\ Len(events) = 10
    /\ [i \in 1..5 |-> <<events[2 * i - 1].kind, events[2 * i - 1].ki>>] =
          << <<"body", 1>>, <<"body", 2>>, <<"body", 3>>,
             <<"legends", 2>>, <<"legends", 3>> >>

\* C20: every renderer call whose output file is <name>_legends.stl is made
\* with render equal to ["legends"], both RENDER flags carrying only
\* "legends", in the named mode as in the all-keycaps mode.
C20_LegendsOnly ==
    pc # "off" =>
        \A i \in Calls :
            LET file == events[i].file
            IN  (events[i].kind = "legends" \/ file[Len(file) - 1] = "_legends") =>
                   /\ events[i].render = List(<<Str(<<"legends">>)>>)
                   /\ events[i].first = <<"[", BS, DQ, "legends", BS, DQ, "]">>
                   /\ events[i].last = <<"[", BS, DQ, "legends", BS, DQ, "]">>

---------------------------------------------------------------------------
(* The caller's objects *)

\* C21: constructing an instance of any family class never modifies the list
\* objects the caller passed as keyword values: after construction each passed
\* object has the elements it had before the call, also in the families that
\* edit list elements in place before re-applying the keywords.
C21_CallerArgumentsUnchanged ==
    Built => \A f \in DOMAIN kw0 : arg[f] = kw0[f]

---------------------------------------------------------------------------
(* The homing dot *)

\* riskeyboard70_alphas and the classes derived from it
AlphasFamily ==
    {c \in Classes \ {"Keycap"} :
        \E i \in DOMAIN Chain(c) : Chain(c)[i] = "riskeyboard70_alphas"}

\* C23: for riskeyboard70_alphas and every class derived from it, constructing
\* with homing_dot=True and no homing_dot_length keyword yields
\* homing_dot_length == 3, constructing without homing_dot or with
\* homing_dot=False leaves it at 0, and an explicit homing_dot_length keyword
\* wins in both cases.
C23_HomingDot ==
    (Built /\ cls \in AlphasFamily) =>
        Value("homing_dot_length") =
            IF "homing_dot_length" \in DOMAIN kw0 THEN kw0["homing_dot_length"]
            ELSE IF "homing_dot" \in DOMAIN kw0 /\ Truthy(kw0["homing_dot"])
                 THEN Num(3 * SCALE)
                 ELSE Num(0)

---------------------------------------------------------------------------
(* Instances side by side *)

\* The field values of a held instance k when the default objects are d
ValuesOf(k, d) ==
    [f \in DOMAIN k.self |-> Deref([self |-> k.self, arg |-> k.arg, dflt |-> d], f)]

\* C22: for instances built with no list object shared between their keyword
\* arguments, constructing a further instance of any family class, with every
\* in-place element edit its initializers perform, never changes a field value
\* of an instance constructed before, even though the unset list fields of all
\* of them are bound to the constructor's shared default objects.
C22_InstanceIsolation ==
    [][\A k \in made : k \in made' /\ ValuesOf(k, dflt') = ValuesOf(k, dflt)]_vars

\* An instance whose list fields are the default objects is held, and a class
\* that edits fonts, font_sizes and trans in place has been constructed after it
C22_Witness ==
    /\ phase = "built"
    /\ cls = "riskeyboard70_fontawesome"
    /\ kw0 = <<>>
    /\ Value("fonts") = List(<<Str(<<"FontAwesome">>)>>)
    /\ \E k \in made :
          /\ k.cls = "Keycap"
          /\ \A f \in {"fonts", "font_sizes", "trans", "render", "legends"} :
                k.self[f].ref = "dflt"
          /\ ValuesOf(k, dflt) = [f \in Fields |->
                                    IF f = "name" THEN Str(<<"keycap">>)
                                    ELSE KeycapDefaults[f]]

====
